---- MODULE Spec2Model ----
(***************************************************************************)
(* Model of the xray-sdk reasoning job queue (ReasoningQueue in            *)
(* src/src/reasoning/generator.ts), the storage it reads and writes        *)
(* (src/src/storage/MemoryStorage.ts) and the persisted job table it       *)
(* mirrors to through the optional Prisma client.                          *)
(*                                                                         *)
(* Delays and elapsed time are in milliseconds.                            *)
(***************************************************************************)
EXTENDS Integers, Naturals, Sequences, FiniteSets, TLC

VARIABLES
  now,         \* the clock new Date() reads, in milliseconds
  xray,        \* the XRay tracker and the position of the program driving it
  config,      \* this.config: [concurrency, maxRetries, retryDelays]
  hasPrisma,   \* whether a prismaClient was passed to the constructor
  executions,  \* the Storage Provider's executions, by executionId
  dbJobs,      \* rows of the persisted reasoningJob table, by job id
  loadPc,      \* loadPendingJobs(): "none", "querying" or "done"
  objs,        \* the ReasoningJob objects created so far (heap)
  jobs,        \* this.jobs: job id -> index in objs (0: no entry)
  queued,      \* PQueue: job ids of the tasks waiting for a slot
  running,     \* PQueue: the tasks holding a slot
  timers,      \* pending setTimeout callbacks of handleJobError, each with
               \* its delay, the time elapsed and the attempt that failed
  caller,      \* the processExecution() invocation
  nextId,      \* number of job ids handed out by enqueue() so far
  log          \* per job id: Generator calls, updateStepReasoning calls, the
               \* outcome of every attempt, the row the job table would hold
               \* had no write to it failed, and what the Generator last
               \* returned (history, not program state)

vars == <<now, xray, config, hasPrisma, executions, dbJobs, loadPc, objs, jobs, queued,
          running, timers, caller, nextId, log>>

-----------------------------------------------------------------------------
(* Bounds of the model *)

MaxEnqueues == 2      \* jobs created by enqueue() in one run
MaxObjs == 3          \* job objects created in one run (enqueue and reload)

MaxSteps == 2         \* steps a tracked execution finalizes
MaxLiveEnqueues == 1  \* jobs created by enqueue() in a run checked for liveness
MaxNow == 1           \* milliseconds the clock advances while steps are tracked

RecoveredId == 0      \* id of the job row left behind by an earlier process
JobIds == 0..(IF 2 * MaxSteps > MaxEnqueues THEN 2 * MaxSteps ELSE MaxEnqueues)

ExecIds == {"exec-1", "order-429"}
StepNames == {"fetch", "rank"}

\* execution.id, the primary key of the execution row (not the executionId)
InternalId == [e \in ExecIds |-> IF e = "exec-1" THEN "ck-a" ELSE "ck-b"]

\* configurations run without persistence
Configs ==
  { [concurrency |-> 1, maxRetries |-> 4,
     retryDelays |-> <<1000, 2000, 4000, 8000>>],
    [concurrency |-> 2, maxRetries |-> 3, retryDelays |-> <<1000>>],
    [concurrency |-> 2, maxRetries |-> 1,
     retryDelays |-> <<1000, 2000, 4000, 8000>>] }

\* configurations run with a Prisma client
PrismaConfigs ==
  { [concurrency |-> 2, maxRetries |-> 2, retryDelays |-> <<1000>>],
    [concurrency |-> 2, maxRetries |-> 1,
     retryDelays |-> <<1000, 2000, 4000, 8000>>] }

\* reasoning is <<>> when undefined and <<r>> when set to the string r
NoReasoning == <<>>
Step(n, r) == [name |-> n, reasoning |-> r]
NoExecution == [present |-> FALSE, steps |-> <<>>]
Stored(steps) == [present |-> TRUE, steps |-> steps]

OneStep ==
  [e \in ExecIds |->
     IF e = "exec-1" THEN Stored(<<Step("fetch", NoReasoning)>>)
     ELSE NoExecution]
OneReasoned ==
  [e \in ExecIds |->
     IF e = "exec-1"
     THEN Stored(<<Step("fetch", NoReasoning), Step("rank", <<"ranked">>)>>)
     ELSE NoExecution]
TwoSteps ==
  [e \in ExecIds |->
     IF e = "exec-1"
     THEN Stored(<<Step("fetch", NoReasoning), Step("rank", NoReasoning)>>)
     ELSE NoExecution]

\* what Storage holds when the queue is constructed
InitialStores == {OneStep, OneReasoned, TwoSteps}
PrismaStores == {OneReasoned}

\* what the Generator may resolve with, and what it may reject with
GenOutputs == {"Fetched 3 results", ""}

Err(msg) == [message |-> msg, str |-> "Error: " \o msg, code |-> <<"undefined">>]
GenErrors ==
  { Err("ETIMEDOUT"),
    Err("invalid input format"),
    [message |-> "Too Many Requests", str |-> "Error: Too Many Requests",
     code |-> <<"number", 429>>] }

-----------------------------------------------------------------------------
(* Strings *)

Includes(s, p) ==
  \E i \in 1..(Len(s) - Len(p) + 1) : SubSeq(s, i, i + Len(p) - 1) = p

Truthy(r) == r # NoReasoning /\ r[1] # ""

-----------------------------------------------------------------------------
(* isRetryableError *)

retryablePatterns ==
  <<"ECONNRESET", "ETIMEDOUT", "ENOTFOUND", "rate_limit_exceeded",
    "service_unavailable", "timeout", "429", "503", "502">>

\* error.message || String(error)
ErrorMessage(error) == IF error.message # "" THEN error.message ELSE error.str

\* errorCode === pattern: strict equality with a string
CodeIs(error, pattern) ==
  error.code[1] = "string" /\ error.code[2] = pattern

isRetryableError(error) ==
  \E k \in 1..Len(retryablePatterns) :
     \/ Includes(ErrorMessage(error), retryablePatterns[k])
     \/ CodeIs(error, retryablePatterns[k])

FallbackDelay == 8000

\* this.config.retryDelays[job.attempt - 1] || 8000
RetryDelay(cfg, attempt) ==
  IF attempt <= Len(cfg.retryDelays) /\ cfg.retryDelays[attempt] # 0
  THEN cfg.retryDelays[attempt]
  ELSE FallbackDelay

-----------------------------------------------------------------------------
(* Sequences *)

RemoveAt(seq, i) == SubSeq(seq, 1, i - 1) \o SubSeq(seq, i + 1, Len(seq))

\* Array.prototype.find: index of the first step named n, 0 when there is none
FindStep(steps, n) ==
  IF \E i \in 1..Len(steps) : steps[i].name = n
  THEN CHOOSE i \in 1..Len(steps) :
         steps[i].name = n /\ \A k \in 1..(i - 1) : steps[k].name # n
  ELSE 0

-----------------------------------------------------------------------------
(* Storage Provider *)

\* getExecutionById: the stored execution, NoExecution when there is none
getExecutionById(store, id) ==
  IF id \in DOMAIN store THEN store[id] ELSE NoExecution

\* updateStepReasoning fails when the execution or the step is missing
CanUpdateStepReasoning(store, id, stepName) ==
  /\ getExecutionById(store, id).present
  /\ FindStep(store[id].steps, stepName) # 0

updateStepReasoningOfAll(store, id, stepName, reasoning) ==
  [store EXCEPT ![id].steps =
     [k \in 1..Len(@) |-> IF @[k].name = stepName
                           THEN [@[k] EXCEPT !.reasoning = <<reasoning>>]
                           ELSE @[k]]]

updateStepReasoning(store, id, stepName, reasoning) ==
  [store EXCEPT ![id].steps[FindStep(store[id].steps, stepName)].reasoning =
                   <<reasoning>>]

saveExecutionAppending(store, execution) ==
  [store EXCEPT ![execution.executionId] =
     Stored(store[execution.executionId].steps \o execution.steps)]

\* saveExecution stores a JSON copy of the execution under its executionId
saveExecution(store, execution) ==
  [store EXCEPT ![execution.executionId] = Stored(execution.steps)]

-----------------------------------------------------------------------------
(* The XRay tracker.  An absent field is <<>>, a field set to v is <<v>>;     *)
(* activeSteps[name] is <<>> when name is not open and <<step>> when it is.   *)

StepInputs == {"query"}
StepOutputs == {"3 results"}
StepErrors == {"boom"}
FinalOutcomes == {"done"}

\* the last call made on the tracker or on Storage, its argument and what it did (history,
\* not program state): "opened", "replaced", "appended", "ignored", "logged",
\* "ended", "saved" or "skipped"
NoCall == [op |-> "", name |-> "", arg |-> "", effect |-> ""]
Call(op, name, arg, effect) ==
  [op |-> op, name |-> name, arg |-> arg, effect |-> effect]

\* no tracker: the queue is driven directly
NoXRay ==
  [pc |-> "off",
   execution |-> [executionId |-> "", startedAt |-> 0, endedAt |-> <<>>,
                  steps |-> <<>>, finalOutcome |-> <<>>],
   activeSteps |-> [n \in StepNames |-> <<>>],
   pendingReasoningSteps |-> <<>>,
   storage |-> FALSE,
   todo |-> <<>>,
   last |-> NoCall,
   overwritten |-> <<>>]

\* new XRay(executionId, metadata, storage) at time t; storage tells whether
\* a Storage Provider was passed
NewXRay(executionId, t, storage) ==
  [NoXRay EXCEPT !.pc = "tracking", !.execution.executionId = executionId,
                 !.execution.startedAt = t, !.storage = storage]

\* a step as startStep creates it
OpenStep(name, input, t) ==
  [name |-> name, input |-> <<input>>, output |-> <<>>, error |-> <<>>,
   timestamp |-> t, startedAt |-> <<t>>, endedAt |-> <<>>, durationMs |-> <<>>,
   reasoning |-> NoReasoning]

\* logStep({ name, input, output }) at time t
logStep(x, name, input, output, t) ==
  [x EXCEPT !.execution.steps =
     Append(@, [name |-> name, input |-> <<input>>, output |-> <<output>>,
                error |-> <<>>, timestamp |-> t, startedAt |-> <<>>,
                endedAt |-> <<>>, durationMs |-> <<>>,
                reasoning |-> NoReasoning])]

startStepReopening(x, name, input, t) ==
  [x EXCEPT !.activeSteps[name] = <<OpenStep(name, input, t)>>,
            !.execution.steps =
               IF @ # <<>> /\ @[Len(@)].name = name
               THEN SubSeq(@, 1, Len(@) - 1) ELSE @]

startStepKeepingFirst(x, name, input, t) ==
  IF x.activeSteps[name] = <<>>
  THEN [x EXCEPT !.activeSteps[name] = <<OpenStep(name, input, t)>>]
  ELSE x

\* startStep(name, input) at time t
startStep(x, name, input, t) ==
  [x EXCEPT !.activeSteps[name] = <<OpenStep(name, input, t)>>]

endStepAtFront(x, name, output, t) ==
  IF x.activeSteps[name] = <<>> THEN x
  ELSE [x EXCEPT !.execution.steps =
                    <<[x.activeSteps[name][1] EXCEPT
                         !.output = <<output>>,
                         !.endedAt = <<t>>,
                         !.durationMs = <<t - x.activeSteps[name][1].startedAt[1]>>,
                         !.reasoning = NoReasoning]>> \o @,
                 !.activeSteps[name] = <<>>,
                 !.pendingReasoningSteps = Append(@, name)]

endStepOfUnopened(x, name, output, t) ==
  LET step == IF x.activeSteps[name] = <<>>
              THEN [OpenStep(name, "", t) EXCEPT !.input = <<>>]
              ELSE x.activeSteps[name][1]
  IN [x EXCEPT !.execution.steps =
                  Append(@, [step EXCEPT
                               !.output = <<output>>,
                               !.endedAt = <<t>>,
                               !.durationMs = <<t - step.startedAt[1]>>,
                               !.reasoning = NoReasoning]),
               !.activeSteps[name] = <<>>,
               !.pendingReasoningSteps = Append(@, name)]

\* endStep(name, output) at time t
endStep(x, name, output, t) ==
  IF x.activeSteps[name] = <<>> THEN x
  ELSE [x EXCEPT !.execution.steps =
                    Append(@, [x.activeSteps[name][1] EXCEPT
                                 !.output = <<output>>,
                                 !.endedAt = <<t>>,
                                 !.durationMs =
                                    <<t - x.activeSteps[name][1].startedAt[1]>>,
                                 !.reasoning = NoReasoning]),
                 !.activeSteps[name] = <<>>,
                 !.pendingReasoningSteps = Append(@, name)]

errorStepAsOutput(x, name, message, t) == endStep(x, name, message, t)

errorStepUntracked(x, name, message, t) ==
  IF x.activeSteps[name] = <<>> THEN x
  ELSE [x EXCEPT !.execution.steps =
                    Append(@, [x.activeSteps[name][1] EXCEPT
                                 !.error = <<message>>,
                                 !.endedAt = <<t>>,
                                 !.durationMs =
                                    <<t - x.activeSteps[name][1].startedAt[1]>>,
                                 !.reasoning = NoReasoning]),
                 !.activeSteps[name] = <<>>]

\* errorStep(name, error) at time t, message being error.message
errorStep(x, name, message, t) ==
  IF x.activeSteps[name] = <<>> THEN x
  ELSE [x EXCEPT !.execution.steps =
                    Append(@, [x.activeSteps[name][1] EXCEPT
                                 !.error = <<message>>,
                                 !.endedAt = <<t>>,
                                 !.durationMs =
                                    <<t - x.activeSteps[name][1].startedAt[1]>>,
                                 !.reasoning = NoReasoning]),
                 !.activeSteps[name] = <<>>,
                 !.pendingReasoningSteps = Append(@, name)]

endClosingOpenSteps(x, finalOutcome, t) ==
  [x EXCEPT !.execution.endedAt = <<t>>,
            !.execution.finalOutcome = <<finalOutcome>>,
            !.activeSteps = [n \in StepNames |-> <<>>]]

\* end(finalOutcome) at time t
end(x, finalOutcome, t) ==
  [x EXCEPT !.execution.endedAt = <<t>>,
            !.execution.finalOutcome = <<finalOutcome>>]

\* save(): if (this.storage) await this.storage.saveExecution(this.execution)
save(x, store) ==
  IF x.storage THEN saveExecution(store, x.execution) ELSE store

-----------------------------------------------------------------------------
(* Persisted job table (prisma.reasoningJob) *)

NoRow == [status |-> "none"]
JobRow(e, s, st, a) ==
  [executionId |-> e, stepName |-> s, status |-> st, attempts |-> a]

\* reasoningJob.update({ data: { status } }); a failed write changes nothing
DbSetStatus(db, id, status, ok) ==
  IF ok /\ db[id] # NoRow THEN [db EXCEPT ![id].status = status] ELSE db

\* reasoningJob.update({ data: { status: 'failed', attempts } })
DbSetFailed(db, id, attempts, ok) ==
  IF ok /\ db[id] # NoRow
  THEN [db EXCEPT ![id].status = "failed", ![id].attempts = attempts]
  ELSE db

-----------------------------------------------------------------------------
(* The queue: job objects, PQueue and timers.  The operators below work on a *)
(* record q of the variables a handler changes.                              *)

NewJobAttemptZero(id, e, s, a) ==
  [id |-> id, executionId |-> e, stepName |-> s, attempt |-> a - 1,
   status |-> "pending", error |-> ""]

NewJob(id, e, s, a) ==
  [id |-> id, executionId |-> e, stepName |-> s, attempt |-> a,
   status |-> "pending", error |-> ""]

\* an object nothing refers to any more
Collected ==
  [id |-> -1, executionId |-> "", stepName |-> "", attempt |-> 0,
   status |-> "collected", error |-> ""]

NoLog == [gens |-> 0, upds |-> 0, hist |-> <<>>, row |-> NoRow, out |-> <<>>]

\* the writes of DbSetStatus and DbSetFailed, had none failed so far
Mirrored(q, id, status) ==
  [q EXCEPT !.log[id].row = IF @ = NoRow THEN @ ELSE [@ EXCEPT !.status = status]]
MirroredFailed(q, id, attempts) ==
  [q EXCEPT !.log[id].row =
     IF @ = NoRow THEN @
     ELSE [@ EXCEPT !.status = "failed", !.attempts = attempts]]

QueueConcurrencyPlusOne(cfg) == cfg.concurrency + 1

\* new PQueue({ concurrency: this.config.concurrency })
QueueConcurrency(cfg) == cfg.concurrency

\* processJob up to its first await: look the job up, mark it processing,
\* mirror the status, and ask Storage for the execution.  A job that is not
\* in the map makes the task return at once.
StartTask(q, id, ok) ==
  IF q.jobs[id] = 0 THEN q
  ELSE Mirrored([q EXCEPT !.objs[q.jobs[id]].status = "processing",
                          !.running = Append(@, [obj |-> q.jobs[id], pc |-> "load"]),
                          !.dbJobs = DbSetStatus(@, id, "processing", ok)],
                id, "processing")

DrainWithoutLimit(q, n, ok) ==
  IF q.queued # <<>>
  THEN StartTask([q EXCEPT !.queued = Tail(@)], Head(q.queued), ok)
  ELSE q

\* PQueue starts waiting tasks, oldest first, while a slot is free
RECURSIVE Drain(_, _, _)
Drain(q, n, ok) ==
  IF q.queued # <<>> /\ Len(q.running) < n
  THEN Drain(StartTask([q EXCEPT !.queued = Tail(@)], Head(q.queued), ok), n, ok)
  ELSE q

\* this.queue.add(() => this.processJob(id))
Add(q, id, n, ok) == Drain([q EXCEPT !.queued = Append(@, id)], n, ok)

\* a task settles: its slot is released and PQueue starts the next one
Finish(q, i, n, ok) == Drain([q EXCEPT !.running = RemoveAt(@, i)], n, ok)

IdleNothingWaiting(q) == q.queued = <<>>

\* PQueue is idle: nothing waiting and nothing running
Idle(q) == q.queued = <<>> /\ q.running = <<>>

\* the outcome of an attempt, appended to the job's history
Logged(q, id, tag) == [q EXCEPT !.log[id].hist = Append(@, tag)]

handleJobErrorWithoutTimer(q, o, error, cfg, ok) ==
  LET job == q.objs[o]
  IN IF isRetryableError(error) /\ job.attempt < cfg.maxRetries
     THEN [q EXCEPT !.objs[o].error = ErrorMessage(error),
                    !.objs[o].attempt = @ + 1,
                    !.objs[o].status = "pending"]
     ELSE MirroredFailed([q EXCEPT !.objs[o].error = ErrorMessage(error),
                                   !.objs[o].status = "failed",
                                   !.dbJobs = DbSetFailed(@, job.id, job.attempt, ok)],
                         job.id, job.attempt)

\* handleJobError(job, error) for the job object o
handleJobError(q, o, error, cfg, ok) ==
  LET job == q.objs[o]
  IN IF isRetryableError(error) /\ job.attempt < cfg.maxRetries
     THEN [q EXCEPT !.objs[o].error = ErrorMessage(error),
                    !.objs[o].attempt = @ + 1,
                    !.objs[o].status = "pending",
                    !.timers = Append(@, [job |-> job.id,
                                          delay |-> RetryDelay(cfg, job.attempt),
                                          elapsed |-> 0,
                                          attempt |-> job.attempt])]
     ELSE MirroredFailed([q EXCEPT !.objs[o].error = ErrorMessage(error),
                                   !.objs[o].status = "failed",
                                   !.dbJobs = DbSetFailed(@, job.id, job.attempt, ok)],
                         job.id, job.attempt)

Q == [objs |-> objs, jobs |-> jobs, queued |-> queued, running |-> running,
      timers |-> timers, dbJobs |-> dbJobs, log |-> log]

\* an object is reachable from the map or from a task that holds it
Reachable(q, o) ==
  \/ \E id \in JobIds : q.jobs[id] = o
  \/ \E i \in 1..Len(q.running) : q.running[i].obj = o

Collect(q) ==
  [o \in 1..Len(q.objs) |-> IF Reachable(q, o) THEN q.objs[o] ELSE Collected]

SetQ(q) ==
  /\ objs' = Collect(q)
  /\ jobs' = q.jobs
  /\ queued' = q.queued
  /\ running' = q.running
  /\ timers' = q.timers
  /\ dbJobs' = q.dbJobs
  /\ log' = q.log

WakeRethrow(c, q) ==
  IF c.pc = "waiting" /\ Idle(q)
  THEN [c EXCEPT !.pc = IF \E o \in 1..Len(q.objs) : q.objs[o].status = "failed"
                        THEN "threw" ELSE "returned"]
  ELSE c

\* queue.onIdle() resolves for a waiting processExecution when PQueue is idle
Wake(c, q) == IF c.pc = "waiting" /\ Idle(q) THEN [c EXCEPT !.pc = "returned"] ELSE c

-----------------------------------------------------------------------------
(* Initial state: the queue has just been constructed *)

\* the row an earlier process may have left in the job table
RecoveredRows ==
  {NoRow} \cup
  { JobRow(InternalId["exec-1"], "fetch", st, 1) :
      st \in {"pending", "processing", "completed", "failed"} }
  \cup {JobRow(InternalId["exec-1"], "fetch", "processing", 2)}

IdleCaller == [pc |-> "idle", executionId |-> "", todo |-> <<>>, batch |-> {}]

Init ==
  /\ now = 0
  /\ xray = NoXRay
  /\ hasPrisma \in BOOLEAN
  /\ config \in (IF hasPrisma THEN PrismaConfigs ELSE Configs)
  /\ executions \in (IF hasPrisma THEN PrismaStores ELSE InitialStores)
  /\ \E row \in (IF hasPrisma THEN RecoveredRows ELSE {NoRow}) :
       dbJobs = [id \in JobIds |-> IF id = RecoveredId THEN row ELSE NoRow]
  /\ loadPc = IF hasPrisma THEN "querying" ELSE "none"
  /\ objs = <<>>
  /\ jobs = [id \in JobIds |-> 0]
  /\ queued = <<>>
  /\ running = <<>>
  /\ timers = <<>>
  /\ caller = IdleCaller
  /\ nextId = 0
  /\ log = [id \in JobIds |-> [NoLog EXCEPT !.row = dbJobs[id]]]

\* outcomes of a best-effort write to the job table
DbOutcomes == IF hasPrisma THEN BOOLEAN ELSE {TRUE}

-----------------------------------------------------------------------------
(* enqueue(executionId, stepName) *)

enqueueUnmapped(q, id, e, s, ok1, ok2) ==
  Add([q EXCEPT !.objs = Append(@, NewJob(id, e, s, 1))], id,
      QueueConcurrency(config), ok2)

enqueue(q, id, e, s, ok1, ok2) ==
  LET found == hasPrisma /\ getExecutionById(executions, e).present
      q1 == [q EXCEPT !.objs = Append(@, NewJob(id, e, s, 1)),
                      !.jobs[id] = Len(q.objs) + 1,
                      !.dbJobs = IF found /\ ok1
                                 THEN [@ EXCEPT ![id] =
                                         JobRow(InternalId[e], s, "pending", 1)]
                                 ELSE @,
                      !.log[id].row = IF found
                                      THEN JobRow(InternalId[e], s, "pending", 1)
                                      ELSE @]
  IN Add(q1, id, QueueConcurrency(config), ok2)

PendingRowsOnlyPending(db) == {id \in JobIds : db[id].status = "pending"}

\* rows loadPendingJobs would reload now
PendingRows(db) == {id \in JobIds : db[id].status \in {"pending", "processing"}}

\* the bounds leave room for one more enqueue
CanEnqueue(reserved) ==
  IF xray.pc = "off"
  THEN /\ nextId + reserved < MaxEnqueues
       /\ Len(objs) + reserved < MaxObjs
  ELSE nextId + reserved < 2 * MaxSteps

Enqueue(e, s) ==
  /\ CanEnqueue(Len(caller.todo))
  /\ \E ok1 \in DbOutcomes, ok2 \in DbOutcomes :
       \E q \in {enqueue(Q, nextId + 1, e, s, ok1, ok2)} : SetQ(q)
  /\ nextId' = nextId + 1
  /\ UNCHANGED <<now, xray, config, hasPrisma, executions, loadPc, caller>>

-----------------------------------------------------------------------------
(* processExecution(executionId) and enqueueExecution(executionId) *)

StepsToEnqueueAll(steps) == [k \in 1..Len(steps) |-> steps[k].name]

\* names of the steps without reasoning, in order
RECURSIVE StepsToEnqueue(_)
StepsToEnqueue(steps) ==
  IF steps = <<>> THEN <<>>
  ELSE (IF Truthy(Head(steps).reasoning) THEN <<>> ELSE <<Head(steps).name>>)
       \o StepsToEnqueue(Tail(steps))

\* enqueueExecution loads the execution; processExecution returns at once
\* when no job was created
ProcessExecutionCall(e) ==
  /\ caller.pc = "idle"
  /\ LET execution == getExecutionById(executions, e)
         todo == StepsToEnqueue(execution.steps)
     IN /\ todo # <<>> => CanEnqueue(Len(todo) - 1)
        /\ caller' =
             IF ~execution.present
             THEN [IdleCaller EXCEPT !.pc = "threw", !.executionId = e]
             ELSE IF todo = <<>>
             THEN [IdleCaller EXCEPT !.pc = "returned", !.executionId = e]
             ELSE [pc |-> "enqueueing", executionId |-> e, todo |-> todo,
                   batch |-> {}]
  /\ UNCHANGED <<now, xray, config, hasPrisma, executions, dbJobs, loadPc, objs, jobs,
                 queued, running, timers, nextId, log>>

\* one iteration of enqueueExecution's loop
ProcessExecutionEnqueue ==
  /\ caller.pc = "enqueueing"
  /\ caller.todo # <<>>
  /\ \E ok1 \in DbOutcomes, ok2 \in DbOutcomes :
       \E q \in {enqueue(Q, nextId + 1, caller.executionId, Head(caller.todo),
                          ok1, ok2)} : SetQ(q)
  /\ nextId' = nextId + 1
  /\ caller' = [caller EXCEPT !.todo = Tail(@), !.batch = @ \cup {nextId + 1}]
  /\ UNCHANGED <<now, xray, config, hasPrisma, executions, loadPc>>

\* await this.queue.onIdle()
ProcessExecutionOnIdle ==
  /\ caller.pc = "enqueueing"
  /\ caller.todo = <<>>
  /\ caller' = [caller EXCEPT !.pc = IF Idle(Q) THEN "returned" ELSE "waiting"]
  /\ UNCHANGED <<now, xray, config, hasPrisma, executions, dbJobs, loadPc, objs, jobs,
                 queued, running, timers, nextId, log>>

\* the caller is free to call processExecution again
ProcessExecutionDone ==
  /\ caller.pc \in {"returned", "threw"}
  /\ caller' = IdleCaller
  /\ UNCHANGED <<now, xray, config, hasPrisma, executions, dbJobs, loadPc, objs, jobs,
                 queued, running, timers, nextId, log>>

-----------------------------------------------------------------------------
(* processJob(jobId), after its first await *)

HasReasoningIgnored(step) == FALSE

\* if (step.reasoning): the idempotent short-circuit
HasReasoning(step) == Truthy(step.reasoning)

notFoundExecution(id) == Err("Execution " \o id \o " not found")
notFoundStep(name, id) == Err("Step " \o name \o " not found in execution " \o id)

\* Storage answered getExecutionById
TaskLoad(i) ==
  /\ i \in 1..Len(running)
  /\ running[i].pc = "load"
  /\ LET o == running[i].obj
         job == objs[o]
         n == QueueConcurrency(config)
         execution == getExecutionById(executions, job.executionId)
         k == FindStep(execution.steps, job.stepName)
     IN \E ok1 \in DbOutcomes, ok2 \in DbOutcomes :
          \E q \in {
                   IF ~execution.present
                   THEN Finish(handleJobError(Logged(Q, job.id, "NF"), o,
                                 notFoundExecution(job.executionId), config, ok1),
                               i, n, ok2)
                   ELSE IF k = 0
                   THEN Finish(handleJobError(Logged(Q, job.id, "NF"), o,
                                 notFoundStep(job.stepName, job.executionId),
                                 config, ok1),
                               i, n, ok2)
                   ELSE IF HasReasoning(execution.steps[k])
                   THEN Finish([Logged(Q, job.id, "K") EXCEPT
                                  !.objs[o].status = "completed"], i, n, ok2)
                   ELSE [Q EXCEPT !.running[i].pc = "gen",
                                  !.log[job.id].gens = @ + 1] } :
             /\ SetQ(q)
             /\ caller' = Wake(caller, q)
  /\ UNCHANGED <<now, xray, config, hasPrisma, executions, loadPc, nextId>>

\* the Generator resolved with reasoning: updateStepReasoning, then completed
GenReturn(i, reasoning) ==
  /\ i \in 1..Len(running)
  /\ running[i].pc = "gen"
  /\ LET o == running[i].obj
         job == objs[o]
         n == QueueConcurrency(config)
         called == [Q EXCEPT !.log[job.id].upds = @ + 1,
                             !.log[job.id].out = <<reasoning>>]
     IN \E ok1 \in DbOutcomes, ok2 \in DbOutcomes :
          IF CanUpdateStepReasoning(executions, job.executionId, job.stepName)
          THEN \E q \in { Finish(Mirrored([Logged(called, job.id, "S") EXCEPT
                                  !.objs[o].status = "completed",
                                  !.dbJobs = DbSetStatus(@, job.id, "completed", ok1)],
                                           job.id, "completed"),
                               i, n, ok2) } :
                  /\ SetQ(q)
                  /\ caller' = Wake(caller, q)
                  /\ executions' = updateStepReasoning(executions, job.executionId,
                                                       job.stepName, reasoning)
          ELSE \E q \in { Finish(handleJobError(Logged(called, job.id, "U"), o,
                                 IF getExecutionById(executions, job.executionId).present
                                 THEN notFoundStep(job.stepName, job.executionId)
                                 ELSE notFoundExecution(job.executionId),
                                 config, ok1), i, n, ok2) } :
                  /\ SetQ(q)
                  /\ caller' = Wake(caller, q)
                  /\ executions' = executions
  /\ UNCHANGED <<now, xray, config, hasPrisma, loadPc, nextId>>

\* the Generator rejected
GenThrow(i, error) ==
  /\ i \in 1..Len(running)
  /\ running[i].pc = "gen"
  /\ \E ok1 \in DbOutcomes, ok2 \in DbOutcomes :
       \E q \in { Finish(handleJobError(
                            Logged(Q, objs[running[i].obj].id,
                                   IF isRetryableError(error) THEN "R" ELSE "F"),
                            running[i].obj, error, config, ok1),
                          i, QueueConcurrency(config), ok2) } :
          /\ SetQ(q)
          /\ caller' = Wake(caller, q)
  /\ UNCHANGED <<now, xray, config, hasPrisma, executions, loadPc, nextId>>

-----------------------------------------------------------------------------
(* Timers of handleJobError *)

TimerDue(t) == t.elapsed >= t.delay

\* time until the next timer falls due
NextDue(ts) ==
  LET left == {ts[k].delay - ts[k].elapsed : k \in {x \in 1..Len(ts) : ~TimerDue(ts[x])}}
  IN CHOOSE d \in left : \A e \in left : d <= e

\* time passes until the next timer falls due
Tick ==
  /\ \E k \in 1..Len(timers) : ~TimerDue(timers[k])
  /\ timers' = [k \in 1..Len(timers) |->
                  IF TimerDue(timers[k]) THEN timers[k]
                  ELSE [timers[k] EXCEPT !.elapsed = @ + NextDue(timers)]]
  /\ UNCHANGED <<now, xray, config, hasPrisma, executions, dbJobs, loadPc, objs, jobs,
                 queued, running, caller, nextId, log>>

\* setTimeout(() => this.queue.add(() => this.processJob(job.id)), delay)
TimerFire(k) ==
  /\ k \in 1..Len(timers)
  /\ TimerDue(timers[k])
  /\ \E ok \in DbOutcomes :
       \E q \in {Add([Q EXCEPT !.timers = RemoveAt(@, k)], timers[k].job,
                      QueueConcurrency(config), ok)} : SetQ(q)
  /\ UNCHANGED <<now, xray, config, hasPrisma, executions, loadPc, caller, nextId>>

-----------------------------------------------------------------------------
(* loadPendingJobs() and clear() *)

\* the for loop over the rows findMany returned, in ascending id order
RECURSIVE Reload(_, _, _, _)
Reload(q, ids, rows, ok) ==
  IF ids = {} THEN q
  ELSE LET id == CHOOSE x \in ids : \A y \in ids : x <= y
           row == rows[id]
           job == NewJob(id, row.executionId, row.stepName, row.attempts)
           q1 == [q EXCEPT !.objs = Append(@, job), !.jobs[id] = Len(q.objs) + 1]
       IN Reload(Add(q1, id, QueueConcurrency(config), ok), ids \ {id}, rows, ok)

LoadPendingJobs ==
  /\ loadPc = "querying"
  /\ Len(objs) + Cardinality(PendingRows(dbJobs)) <= MaxObjs
  /\ loadPc' = "done"
  /\ \E ok \in DbOutcomes :
       \E q \in {Reload(Q, PendingRows(dbJobs), dbJobs, ok)} : SetQ(q)
  /\ UNCHANGED <<now, xray, config, hasPrisma, executions, caller, nextId>>

\* findMany rejected: the error is logged
LoadPendingJobsFail ==
  /\ loadPc = "querying"
  /\ loadPc' = "done"
  /\ UNCHANGED <<now, xray, config, hasPrisma, executions, dbJobs, objs, jobs, queued,
                 running, timers, caller, nextId, log>>

\* jobs of the map m (over the objects os) that have status st
WithStatus(m, os, st) == {id \in JobIds : m[id] # 0 /\ os[m[id]].status = st}

getStatsOfEveryObject(m, os) ==
  [pending |-> Cardinality(WithStatus(m, os, "pending")),
   processing |-> Cardinality(WithStatus(m, os, "processing")),
   completed |-> Cardinality(WithStatus(m, os, "completed")),
   failed |-> Cardinality(WithStatus(m, os, "failed")),
   totalJobs |-> Len(os)]

\* getStats() on the map m
getStats(m, os) ==
  [pending |-> Cardinality(WithStatus(m, os, "pending")),
   processing |-> Cardinality(WithStatus(m, os, "processing")),
   completed |-> Cardinality(WithStatus(m, os, "completed")),
   failed |-> Cardinality(WithStatus(m, os, "failed")),
   totalJobs |-> Cardinality({id \in JobIds : m[id] # 0})]

ClearAndPurge ==
  /\ \E id \in JobIds : jobs[id] # 0
  /\ \E q \in {[Q EXCEPT !.jobs = [id \in JobIds |-> 0],
                           !.dbJobs = [id \in JobIds |-> NoRow],
                           !.log = [id \in JobIds |->
                                      [NoLog EXCEPT !.row = log[id].row]]]} : SetQ(q)
  /\ UNCHANGED <<now, xray, config, hasPrisma, executions, loadPc, caller, nextId>>

\* clear(): this.jobs.clear()
Clear ==
  /\ \E id \in JobIds : jobs[id] # 0
  /\ \E q \in {[Q EXCEPT !.jobs = [id \in JobIds |-> 0],
                           !.log = [id \in JobIds |->
                                      [NoLog EXCEPT !.row = log[id].row]]]} : SetQ(q)
  /\ UNCHANGED <<now, xray, config, hasPrisma, executions, loadPc, caller, nextId>>

-----------------------------------------------------------------------------

\* the queue: enqueue, the tasks, the retry timers and the reload
Next ==
  \/ \E e \in ExecIds, s \in StepNames : Enqueue(e, s)
  \/ \E i \in 1..Len(running) : TaskLoad(i)
  \/ \E i \in 1..Len(running), r \in GenOutputs : GenReturn(i, r)
  \/ \E i \in 1..Len(running), error \in GenErrors : GenThrow(i, error)
  \/ Tick
  \/ \E k \in 1..Len(timers) : TimerFire(k)
  \/ LoadPendingJobs
  \/ LoadPendingJobsFail

Spec == Init /\ [][Next]_vars

\* the queue with a caller of processExecution, without persistence
InitCaller == Init /\ ~hasPrisma

NextCaller ==
  \/ \E e \in ExecIds, s \in StepNames : Enqueue(e, s)
  \/ \E e \in ExecIds : ProcessExecutionCall(e)
  \/ ProcessExecutionEnqueue
  \/ ProcessExecutionOnIdle
  \/ ProcessExecutionDone
  \/ \E i \in 1..Len(running) : TaskLoad(i)
  \/ \E i \in 1..Len(running), r \in GenOutputs : GenReturn(i, r)
  \/ \E i \in 1..Len(running), error \in GenErrors : GenThrow(i, error)
  \/ Tick
  \/ \E k \in 1..Len(timers) : TimerFire(k)

SpecCaller == InitCaller /\ [][NextCaller]_vars

\* the queue when every Generator call and Storage call returns, timers fire
\* and the reload query settles
InitLive ==
  /\ Init
  /\ hasPrisma
  /\ config.maxRetries = 2
  /\ dbJobs[RecoveredId].status \in {"none", "processing"}
  /\ dbJobs[RecoveredId].status = "processing" => dbJobs[RecoveredId].attempts = 1

Fairness ==
  /\ WF_vars(\E i \in 1..Len(running) : TaskLoad(i))
  /\ WF_vars(\E i \in 1..Len(running) :
               \/ \E r \in GenOutputs : GenReturn(i, r)
               \/ \E error \in GenErrors : GenThrow(i, error))
  /\ WF_vars(Tick)
  /\ WF_vars(\E k \in 1..Len(timers) : TimerFire(k))
  /\ WF_vars(LoadPendingJobs \/ LoadPendingJobsFail)

\* the queue with at most MaxLiveEnqueues calls of enqueue
NextLive ==
  \/ \E e \in ExecIds, s \in StepNames : nextId < MaxLiveEnqueues /\ Enqueue(e, s)
  \/ \E i \in 1..Len(running) : TaskLoad(i)
  \/ \E i \in 1..Len(running), r \in GenOutputs : GenReturn(i, r)
  \/ \E i \in 1..Len(running), error \in GenErrors : GenThrow(i, error)
  \/ Tick
  \/ \E k \in 1..Len(timers) : TimerFire(k)
  \/ LoadPendingJobs
  \/ LoadPendingJobsFail

SpecLive == InitLive /\ [][NextLive]_vars /\ Fairness

\* the queue with a client that also calls clear(), with persistence
InitStats ==
  /\ Init
  /\ hasPrisma
  /\ config.maxRetries = 2
  /\ dbJobs[RecoveredId] = NoRow

NextStats ==
  \/ Next
  \/ Clear

SpecStats == InitStats /\ [][NextStats]_vars

-----------------------------------------------------------------------------
(* The example program: track steps, end, save, enqueueReasoning, and then   *)
(* processExecution, with MemoryStorage and a Generator that always succeeds *)

StartStep(name, input) ==
  /\ xray.pc = "tracking"
  /\ Len(xray.execution.steps) < MaxSteps
  /\ xray' = startStep(xray, name, input, now)
  /\ UNCHANGED <<now, config, hasPrisma, executions, dbJobs, loadPc, objs, jobs,
                 queued, running, timers, caller, nextId, log>>

EndStep(name, output) ==
  /\ xray.pc = "tracking"
  /\ xray' = endStep(xray, name, output, now)
  /\ UNCHANGED <<now, config, hasPrisma, executions, dbJobs, loadPc, objs, jobs,
                 queued, running, timers, caller, nextId, log>>

ErrorStep(name, message) ==
  /\ xray.pc = "tracking"
  /\ xray' = errorStep(xray, name, message, now)
  /\ UNCHANGED <<now, config, hasPrisma, executions, dbJobs, loadPc, objs, jobs,
                 queued, running, timers, caller, nextId, log>>

End(finalOutcome) ==
  /\ xray.pc = "tracking"
  /\ xray' = [end(xray, finalOutcome, now) EXCEPT !.pc = "ended"]
  /\ UNCHANGED <<now, config, hasPrisma, executions, dbJobs, loadPc, objs, jobs,
                 queued, running, timers, caller, nextId, log>>

\* await xray.save()
Save ==
  /\ xray.pc = "ended"
  /\ xray' = [xray EXCEPT !.pc = "saved"]
  /\ executions' = save(xray, executions)
  /\ UNCHANGED <<now, config, hasPrisma, dbJobs, loadPc, objs, jobs, queued,
                 running, timers, caller, nextId, log>>

\* xray.enqueueReasoning(queue) starts its loop over pendingReasoningSteps
EnqueueReasoningCall ==
  /\ xray.pc = "saved"
  /\ xray' = [xray EXCEPT
                !.pc = IF xray.pendingReasoningSteps = <<>>
                       THEN "enqueued" ELSE "enqueueing",
                !.todo = xray.pendingReasoningSteps]
  /\ UNCHANGED <<now, config, hasPrisma, executions, dbJobs, loadPc, objs, jobs,
                 queued, running, timers, caller, nextId, log>>

\* await queue.enqueue(this.execution.executionId, stepName)
EnqueueReasoningStep ==
  /\ xray.pc = "enqueueing"
  /\ \E ok1 \in DbOutcomes, ok2 \in DbOutcomes :
       \E q \in {enqueue(Q, nextId + 1, xray.execution.executionId,
                          Head(xray.todo), ok1, ok2)} : SetQ(q)
  /\ nextId' = nextId + 1
  /\ xray' = [xray EXCEPT !.todo = Tail(@),
                          !.pc = IF Tail(xray.todo) = <<>>
                                 THEN "enqueued" ELSE "enqueueing"]
  /\ UNCHANGED <<now, config, hasPrisma, executions, loadPc, caller>>

\* await queue.processExecution(executionId), once enqueueReasoning returned
MainProcessExecution ==
  /\ xray.pc = "enqueued"
  /\ ProcessExecutionCall(xray.execution.executionId)

InitEndToEnd ==
  /\ now = 0
  /\ xray = NewXRay("exec-1", 0, TRUE)
  /\ hasPrisma = FALSE
  /\ config \in Configs
  /\ executions = [e \in ExecIds |-> NoExecution]
  /\ dbJobs = [id \in JobIds |-> NoRow]
  /\ loadPc = "none"
  /\ objs = <<>>
  /\ jobs = [id \in JobIds |-> 0]
  /\ queued = <<>>
  /\ running = <<>>
  /\ timers = <<>>
  /\ caller = IdleCaller
  /\ nextId = 0
  /\ log = [id \in JobIds |-> NoLog]

NextEndToEnd ==
  \/ \E name \in StepNames, input \in StepInputs : StartStep(name, input)
  \/ \E name \in StepNames, output \in StepOutputs : EndStep(name, output)
  \/ \E name \in StepNames, message \in StepErrors : ErrorStep(name, message)
  \/ \E finalOutcome \in FinalOutcomes : End(finalOutcome)
  \/ Save
  \/ EnqueueReasoningCall
  \/ EnqueueReasoningStep
  \/ MainProcessExecution
  \/ ProcessExecutionEnqueue
  \/ ProcessExecutionOnIdle
  \/ \E i \in 1..Len(running) : TaskLoad(i)
  \/ \E i \in 1..Len(running), r \in GenOutputs : GenReturn(i, r)

SpecEndToEnd == InitEndToEnd /\ [][NextEndToEnd]_vars

\* the example program calls xray.save() once more after enqueueReasoning
SaveAgain ==
  /\ xray.pc = "enqueued"
  /\ executions' = save(xray, executions)
  /\ UNCHANGED <<now, xray, config, hasPrisma, dbJobs, loadPc, objs, jobs, queued,
                 running, timers, caller, nextId, log>>

NextResave ==
  \/ NextEndToEnd
  \/ SaveAgain

SpecResave == InitEndToEnd /\ [][NextResave]_vars

-----------------------------------------------------------------------------
(* A client that calls updateStepReasoning on MemoryStorage; xray.last keeps  *)
(* the call, <<executionId, reasoning>> as its argument, and its outcome      *)

\* the steps an execution in Storage may have: up to two, names may repeat
StoredStepLists ==
  LET one == {Step(n, r) : n \in StepNames, r \in {NoReasoning, <<"ranked">>}}
  IN {<<>>} \cup {<<a>> : a \in one} \cup {<<a, b>> : a \in one, b \in one}

StorageUpdateStepReasoning(executionId, stepName, reasoning) ==
  /\ IF CanUpdateStepReasoning(executions, executionId, stepName)
     THEN /\ executions' = updateStepReasoning(executions, executionId, stepName,
                                               reasoning)
          /\ xray' = [xray EXCEPT !.last =
                        Call("updateStepReasoning", stepName,
                             <<executionId, reasoning>>, "updated")]
     ELSE /\ executions' = executions
          /\ xray' = [xray EXCEPT !.last =
                        Call("updateStepReasoning", stepName,
                             <<executionId, reasoning>>, "threw")]
  /\ UNCHANGED <<now, config, hasPrisma, dbJobs, loadPc, objs, jobs, queued,
                 running, timers, caller, nextId, log>>

InitStorage ==
  /\ now = 0
  /\ xray = NoXRay
  /\ hasPrisma = FALSE
  /\ config = CHOOSE c \in Configs : c.concurrency = 1
  /\ executions \in [ExecIds -> {NoExecution} \cup {Stored(l) : l \in StoredStepLists}]
  /\ executions["order-429"] \in {NoExecution, Stored(<<Step("fetch", NoReasoning)>>)}
  /\ dbJobs = [id \in JobIds |-> NoRow]
  /\ loadPc = "none"
  /\ objs = <<>>
  /\ jobs = [id \in JobIds |-> 0]
  /\ queued = <<>>
  /\ running = <<>>
  /\ timers = <<>>
  /\ caller = IdleCaller
  /\ nextId = 0
  /\ log = [id \in JobIds |-> NoLog]

NextStorage ==
  \E executionId \in ExecIds, stepName \in StepNames, reasoning \in GenOutputs :
    StorageUpdateStepReasoning(executionId, stepName, reasoning)

SpecStorage == InitStorage /\ [][NextStorage]_vars

-----------------------------------------------------------------------------
(* A client that calls the tracker in any order, with MemoryStorage or with  *)
(* no Storage Provider, while the clock advances                             *)

ClientInputs == StepInputs \cup {"laptops"}

Open(x) == {n \in StepNames : x.activeSteps[n] # <<>>}

ClientStartStep(name, input) ==
  /\ Len(xray.execution.steps) + Cardinality(Open(xray) \cup {name}) <= MaxSteps
  /\ xray' = [startStep(xray, name, input, now) EXCEPT
                !.last = Call("startStep", name, input,
                              IF name \in Open(xray) THEN "replaced" ELSE "opened"),
                !.overwritten = IF name \in Open(xray)
                                THEN xray.activeSteps[name] ELSE @]
  /\ UNCHANGED <<now, config, hasPrisma, executions, dbJobs, loadPc, objs, jobs,
                 queued, running, timers, caller, nextId, log>>

ClientEndStep(name, output) ==
  /\ xray' = [endStep(xray, name, output, now) EXCEPT
                !.last = Call("endStep", name, output,
                              IF name \in Open(xray) THEN "appended" ELSE "ignored")]
  /\ UNCHANGED <<now, config, hasPrisma, executions, dbJobs, loadPc, objs, jobs,
                 queued, running, timers, caller, nextId, log>>

ClientErrorStep(name, message) ==
  /\ xray' = [errorStep(xray, name, message, now) EXCEPT
                !.last = Call("errorStep", name, message,
                              IF name \in Open(xray) THEN "appended" ELSE "ignored")]
  /\ UNCHANGED <<now, config, hasPrisma, executions, dbJobs, loadPc, objs, jobs,
                 queued, running, timers, caller, nextId, log>>

ClientLogStep(name, input, output) ==
  /\ Len(xray.execution.steps) + Cardinality(Open(xray)) < MaxSteps
  /\ xray' = [logStep(xray, name, input, output, now) EXCEPT
                !.last = Call("logStep", name, input, "logged")]
  /\ UNCHANGED <<now, config, hasPrisma, executions, dbJobs, loadPc, objs, jobs,
                 queued, running, timers, caller, nextId, log>>

ClientEnd(finalOutcome) ==
  /\ xray' = [end(xray, finalOutcome, now) EXCEPT
                !.last = Call("end", "", finalOutcome, "ended")]
  /\ UNCHANGED <<now, config, hasPrisma, executions, dbJobs, loadPc, objs, jobs,
                 queued, running, timers, caller, nextId, log>>

\* await xray.save(); the history keeps how many steps Storage held for the
\* execution before the call
ClientSave ==
  /\ executions' = save(xray, executions)
  /\ xray' = [xray EXCEPT
                !.last = Call("save", "",
                              Len(getExecutionById(executions,
                                    xray.execution.executionId).steps),
                              IF xray.storage THEN "saved" ELSE "skipped")]
  /\ UNCHANGED <<now, config, hasPrisma, dbJobs, loadPc, objs, jobs, queued,
                 running, timers, caller, nextId, log>>

\* a millisecond passes
ClockTick ==
  /\ now < MaxNow
  /\ now' = now + 1
  /\ UNCHANGED <<xray, config, hasPrisma, executions, dbJobs, loadPc, objs, jobs,
                 queued, running, timers, caller, nextId, log>>

InitTracker ==
  /\ now = 0
  /\ xray \in {NewXRay("exec-1", 0, storage) : storage \in BOOLEAN}
  /\ hasPrisma = FALSE
  /\ config = CHOOSE c \in Configs : c.concurrency = 1
  /\ executions \in {[e \in ExecIds |-> NoExecution], OneReasoned}
  /\ dbJobs = [id \in JobIds |-> NoRow]
  /\ loadPc = "none"
  /\ objs = <<>>
  /\ jobs = [id \in JobIds |-> 0]
  /\ queued = <<>>
  /\ running = <<>>
  /\ timers = <<>>
  /\ caller = IdleCaller
  /\ nextId = 0
  /\ log = [id \in JobIds |-> NoLog]

NextTracker ==
  \/ \E name \in StepNames, input \in ClientInputs : ClientStartStep(name, input)
  \/ \E name \in StepNames, output \in StepOutputs : ClientEndStep(name, output)
  \/ \E name \in StepNames, message \in StepErrors : ClientErrorStep(name, message)
  \/ \E name \in StepNames, input \in StepInputs, output \in StepOutputs :
       ClientLogStep(name, input, output)
  \/ \E finalOutcome \in FinalOutcomes : ClientEnd(finalOutcome)
  \/ ClientSave
  \/ ClockTick

SpecTracker == InitTracker /\ [][NextTracker]_vars

-----------------------------------------------------------------------------
(* Properties *)

InMap(id) == jobs[id] # 0
Job(id) == objs[jobs[id]]
Terminal(id) == Job(id).status \in {"completed", "failed"}

\* tasks of job id that wait for a slot or hold one
TasksOf(id) ==
  Cardinality({k \in 1..Len(queued) : queued[k] = id})
  + Cardinality({i \in 1..Len(running) : objs[running[i].obj].id = id})
TimersOf(id) == Cardinality({k \in 1..Len(timers) : timers[k].job = id})

Last(seq) == seq[Len(seq)]
AllRetryable(hist) == \A k \in 1..Len(hist) : hist[k] = "R"

\* C1: when processExecution has returned, every job it enqueued is
\* completed or failed (none is pending or processing, not even one that
\* waits out a retry delay).
ProcessExecutionWaitsForItsJobs ==
  caller.pc = "returned" =>
    \A id \in caller.batch : InMap(id) => Terminal(id)

\* C2: a job all of whose attempts were retryable Generator failures never
\* has more than maxRetries Generator calls; it is failed exactly when
\* maxRetries attempts were made, its attempt field is then maxRetries, and
\* nothing is dispatched for it any more.
RetryExhaustion ==
  \A id \in JobIds :
    (InMap(id) /\ AllRetryable(log[id].hist)) =>
      /\ log[id].gens <= config.maxRetries
      /\ Job(id).status = "failed" =>
           /\ Len(log[id].hist) = config.maxRetries
           /\ Job(id).attempt = config.maxRetries
      /\ Len(log[id].hist) = config.maxRetries =>
           /\ Job(id).status = "failed"
           /\ log[id].gens = config.maxRetries
           /\ TasksOf(id) = 0 /\ TimersOf(id) = 0

\* C3: a job whose Generator failed retryably k times (k < maxRetries) and
\* then succeeded is completed with attempt k + 1, and the step has the
\* reasoning in Storage.
RetryThenSuccess ==
  \A id \in JobIds :
    (/\ InMap(id)
     /\ log[id].hist # <<>>
     /\ Last(log[id].hist) = "S"
     /\ AllRetryable(SubSeq(log[id].hist, 1, Len(log[id].hist) - 1))
     /\ Len(log[id].hist) - 1 < config.maxRetries) =>
      /\ Job(id).status = "completed"
      /\ Job(id).attempt = Len(log[id].hist)
      /\ LET steps == getExecutionById(executions, Job(id).executionId).steps
         IN steps[FindStep(steps, Job(id).stepName)].reasoning # NoReasoning

NotFoundIsFatal ==
  \A id \in JobIds :
    (InMap(id) /\ log[id].hist # <<>> /\ log[id].hist[1] = "NF") =>
      /\ Job(id).status = "failed"
      /\ Job(id).attempt = 1
      /\ TimersOf(id) = 0

\* the transient signatures: a message or a code that matches, the HTTP
\* status codes 429, 502 and 503 included
HttpStatuses == {429, 502, 503}
TransientSignature(error) ==
  \/ \E k \in 1..Len(retryablePatterns) :
       \/ Includes(ErrorMessage(error), retryablePatterns[k])
       \/ error.code[1] = "string" /\ error.code[2] = retryablePatterns[k]
  \/ error.code[1] = "number" /\ error.code[2] \in HttpStatuses

\* C6: the error a Generator call last rejected with was classified
\* retryable exactly when it has a transient signature.
ErrorClassification ==
  \A id \in JobIds : \A error \in GenErrors :
    (/\ InMap(id)
     /\ log[id].hist # <<>>
     /\ Last(log[id].hist) \in {"R", "F"}
     /\ Job(id).error = ErrorMessage(error)) =>
      (Last(log[id].hist) = "R" <=> TransientSignature(error))

\* the delay the configured list gives attempt a, its last entry beyond it
ConfiguredDelay(cfg, a) ==
  cfg.retryDelays[IF a <= Len(cfg.retryDelays) THEN a ELSE Len(cfg.retryDelays)]

\* C7: every retry is scheduled after retryDelays[a - 1] ms, a the attempt
\* that failed, and after the last entry of the list when a is beyond it.
BackoffDelay ==
  \A k \in 1..Len(timers) :
    timers[k].delay = ConfiguredDelay(config, timers[k].attempt)

\* C8: no two attempts of a job are in flight together, and no attempt is in
\* flight while a retry of the job still waits for its delay.
SequentialAttempts ==
  \A id \in JobIds : TasksOf(id) + TimersOf(id) <= 1

\* C9: at most config.concurrency jobs are processing, and at most that many
\* Generator calls are outstanding.
Processing ==
  {o \in 1..Len(objs) : objs[o].status = "processing"}
ConcurrencyBound ==
  /\ Cardinality(Processing) <= config.concurrency
  /\ Cardinality({i \in 1..Len(running) : running[i].pc = "gen"})
       <= config.concurrency

\* witness of C9: every slot is taken by a processing job and a task waits
ConcurrencySaturated ==
  /\ Cardinality(Processing) = config.concurrency
  /\ queued # <<>>

\* the stored step a job targets has non-empty reasoning
StoredReasoning(job) ==
  LET execution == getExecutionById(executions, job.executionId)
      k == FindStep(execution.steps, job.stepName)
  IN execution.present /\ k # 0 /\ Truthy(execution.steps[k].reasoning)

\* C10: a task that finds non-empty reasoning on its step completes the job
\* without a Generator call and without an updateStepReasoning call.
ShortCircuit ==
  [][\A i \in 1..Len(running) :
       (/\ running[i].pc = "load"
        /\ StoredReasoning(objs[running[i].obj])
        /\ TaskLoad(i)) =>
         LET id == objs[running[i].obj].id
         IN /\ log'[id].gens = log[id].gens
            /\ log'[id].upds = log[id].upds
            /\ Last(log'[id].hist) = "K"
            /\ executions' = executions
            /\ jobs[id] = running[i].obj => objs'[jobs'[id]].status = "completed"]_vars

\* witness of C10: a job completed by the short-circuit after another job
\* for the same step had generated the reasoning
ShortCircuited ==
  \E a \in JobIds, b \in JobIds :
    /\ a # b /\ InMap(a) /\ InMap(b)
    /\ Job(a).executionId = Job(b).executionId
    /\ Job(a).stepName = Job(b).stepName
    /\ log[a].hist = <<"S">>
    /\ log[b].hist = <<"K">> /\ log[b].gens = 0 /\ log[b].upds = 0
    /\ Job(b).status = "completed"

\* C11: a job that has a row in the job table targets the execution the row
\* was persisted for (the executionId given to enqueue) and the row's step,
\* whether it was created by enqueue or rebuilt by loadPendingJobs, and so
\* its task finds the execution and the step in Storage.
CrashRecoveryResumes ==
  \A id \in JobIds :
    (InMap(id) /\ dbJobs[id] # NoRow) =>
      /\ \E e \in ExecIds :
           /\ Job(id).executionId = e
           /\ InternalId[e] = dbJobs[id].executionId
      /\ Job(id).stepName = dbJobs[id].stepName
      /\ \A k \in 1..Len(log[id].hist) : log[id].hist[k] # "NF"

\* C12: loadPendingJobs turns every row that is pending or processing into
\* a new job object with the row's id and attempts count and submits it: the
\* job waits with status pending or, when a slot was free, is processing;
\* rows that are completed or failed, and ids without a row, are left alone.
ReloadOnConstruction ==
  [][LoadPendingJobs =>
       \A id \in JobIds :
         IF dbJobs[id].status \in {"pending", "processing"}
         THEN /\ jobs'[id] > Len(objs)
              /\ objs'[jobs'[id]].id = id
              /\ objs'[jobs'[id]].attempt = dbJobs[id].attempts
              /\ objs'[jobs'[id]].stepName = dbJobs[id].stepName
              /\ \/ /\ objs'[jobs'[id]].status = "pending"
                    /\ \E k \in 1..Len(queued') : queued'[k] = id
                 \/ /\ objs'[jobs'[id]].status = "processing"
                    /\ \E i \in 1..Len(running') : running'[i].obj = jobs'[id]
         ELSE jobs'[id] = jobs[id]]_vars

\* witness of C12: the row of an earlier process, processing with attempts
\* 2, was reloaded after this process had already enqueued a job (the
\* constructor did not wait for the load)
ReloadedAfterEnqueue ==
  /\ loadPc = "done"
  /\ InMap(RecoveredId)
  /\ jobs[RecoveredId] > 1
  /\ Job(RecoveredId).attempt = 2

\* the row of job id is pending or processing: loadPendingJobs selects it
Selected(row) == row.status \in {"pending", "processing"}

\* C13: the job table reads the same to loadPendingJobs whether or not
\* writes to it failed: the rows it selects, and so the jobs it rebuilds and
\* dispatches, are those of the run in which no write failed.
PersistenceFailuresHarmless ==
  [][LoadPendingJobs =>
       \A id \in JobIds :
         /\ Selected(dbJobs[id]) <=> Selected(log[id].row)
         /\ Selected(dbJobs[id]) =>
              /\ dbJobs[id].attempts = log[id].row.attempts
              /\ dbJobs[id].stepName = log[id].row.stepName
              /\ dbJobs[id].executionId = log[id].row.executionId]_vars

\* C14: before the reload, a job whose row exists and lost no write has
\* its status and attempt mirrored in the row.
TransitionsMirrored ==
  \A id \in JobIds :
    (/\ loadPc = "querying"
     /\ InMap(id)
     /\ dbJobs[id] # NoRow
     /\ dbJobs[id] = log[id].row) =>
      /\ dbJobs[id].status = Job(id).status
      /\ dbJobs[id].attempts = Job(id).attempt

\* C15: processExecution throws only when the requested execution is not in
\* Storage, and then it created no job; failures of its jobs do not reach it.
FailuresNotSurfaced ==
  caller.pc = "threw" =>
    /\ ~getExecutionById(executions, caller.executionId).present
    /\ caller.batch = {}

\* witness of C15: processExecution returned normally although a job it
\* enqueued is failed
ReturnedWithFailedJob ==
  /\ caller.pc = "returned"
  /\ \E id \in caller.batch : InMap(id) /\ Job(id).status = "failed"

\* C16: a job that is failed never had a successful updateStepReasoning.
FailedJobWroteNothing ==
  \A id \in JobIds :
    (InMap(id) /\ Job(id).status = "failed") =>
      \A k \in 1..Len(log[id].hist) : log[id].hist[k] # "S"

\* C19: enqueue(e, s) puts a new job with attempt 1 for (e, s) in the map
\* and returns its id: the job is pending or processing, and no Generator
\* call for it has been made yet.
EnqueueReturnsAtOnce ==
  [][\A e \in ExecIds, s \in StepNames :
       Enqueue(e, s) =>
         LET id == nextId + 1
         IN /\ jobs[id] = 0
            /\ jobs'[id] # 0
            /\ objs'[jobs'[id]].id = id
            /\ objs'[jobs'[id]].executionId = e
            /\ objs'[jobs'[id]].stepName = s
            /\ objs'[jobs'[id]].attempt = 1
            /\ objs'[jobs'[id]].status \in {"pending", "processing"}
            /\ log'[id].gens = 0]_vars

\* witness of C19: enqueue has returned the id of a job whose Generator call
\* is outstanding, and getJob finds the job
EnqueuedAndGenerating ==
  \E i \in 1..Len(running) :
    LET id == objs[running[i].obj].id
    IN /\ running[i].pc = "gen"
       /\ id >= 1 /\ id <= nextId
       /\ InMap(id) /\ jobs[id] = running[i].obj
       /\ Job(id).attempt = 1

\* C20: a job changes status only from pending to processing, from
\* processing to completed, to failed, or back to pending with attempt
\* incremented by one; completed and failed are never left.
Lifecycle ==
  [][\A id \in JobIds :
       (jobs[id] # 0 /\ jobs'[id] # 0) =>
         LET a == objs[jobs[id]]
             b == objs'[jobs'[id]]
         IN \/ a.status = b.status /\ a.attempt = b.attempt
            \/ /\ a.status = "pending" /\ b.status = "processing"
               /\ a.attempt = b.attempt
            \/ /\ a.status = "processing" /\ b.status \in {"completed", "failed"}
               /\ a.attempt = b.attempt
            \/ /\ a.status = "processing" /\ b.status = "pending"
               /\ b.attempt = a.attempt + 1]_vars

\* indices of the steps that lack reasoning (absent or empty)
Lacking(steps) == {k \in 1..Len(steps) : ~Truthy(steps[k].reasoning)}

\* C18: enqueueExecution(e) throws and creates no job when Storage has no
\* execution e; otherwise it sets out to create one job for each step that
\* lacks reasoning and none for the others (returning at once with no job when
\* there is none), and each iteration creates exactly one job, for that
\* execution and the next such step, and adds its id to the result.
EnqueueExecutionJobs ==
  [][/\ \A e \in ExecIds :
          ProcessExecutionCall(e) =>
            LET steps == getExecutionById(executions, e).steps
            IN IF ~getExecutionById(executions, e).present
               THEN caller'.pc = "threw" /\ caller'.batch = {} /\ jobs' = jobs
               ELSE /\ caller'.pc # "threw"
                    /\ Len(caller'.todo) = Cardinality(Lacking(steps))
                    /\ \A k \in 1..Len(steps) :
                         (\E j \in 1..Len(caller'.todo) :
                            caller'.todo[j] = steps[k].name)
                         <=> k \in Lacking(steps)
                    /\ Lacking(steps) = {} => caller'.pc = "returned"
     /\ ProcessExecutionEnqueue =>
          LET id == nextId + 1
          IN /\ jobs[id] = 0 /\ jobs'[id] # 0
             /\ \A other \in JobIds \ {id} : jobs'[other] = jobs[other]
             /\ objs'[jobs'[id]].executionId = caller.executionId
             /\ objs'[jobs'[id]].stepName = Head(caller.todo)
             /\ caller'.batch = caller.batch \cup {id}
             /\ Len(caller'.todo) = Len(caller.todo) - 1]_vars

\* witness of C18: enqueueExecution went through an execution with one step
\* that has reasoning and one that lacks it, and created the one job
EnqueuedOnlyLackingStep ==
  /\ caller.pc \in {"enqueueing", "waiting"}
  /\ caller.todo = <<>>
  /\ Cardinality(caller.batch) = 1
  /\ LET steps == getExecutionById(executions, caller.executionId).steps
     IN /\ Len(steps) = 2
        /\ Truthy(steps[2].reasoning)
        /\ \A id \in caller.batch : InMap(id) /\ Job(id).stepName = steps[1].name

\* the names of the steps are pairwise distinct
DistinctNames(steps) ==
  \A j \in 1..Len(steps), k \in 1..Len(steps) :
    steps[j].name = steps[k].name => j = k

\* C17: once processExecution has returned in the example program, and the
\* tracked steps have distinct names, Storage holds the tracked steps and
\* each has as reasoning what a Generator call for that step returned.
EndToEnd ==
  (caller.pc = "returned" /\ DistinctNames(xray.execution.steps)) =>
    LET stored == getExecutionById(executions, xray.execution.executionId)
    IN /\ stored.present
       /\ Len(stored.steps) = Len(xray.execution.steps)
       /\ \A k \in 1..Len(stored.steps) :
            /\ stored.steps[k].name = xray.execution.steps[k].name
            /\ stored.steps[k].reasoning # NoReasoning
            /\ \E id \in JobIds :
                 /\ InMap(id)
                 /\ Job(id).stepName = stored.steps[k].name
                 /\ log[id].out = stored.steps[k].reasoning

\* witness of C17: processExecution returned for a tracked execution of two
\* steps, one closed by endStep and one by errorStep
EndToEndTwoSteps ==
  /\ caller.pc = "returned"
  /\ Len(xray.execution.steps) = 2
  /\ DistinctNames(xray.execution.steps)
  /\ xray.execution.steps[1].error # <<>>
  /\ xray.execution.steps[2].output # <<>>
  /\ caller.batch # {}

-----------------------------------------------------------------------------
(* getStats(), getJob() and clear() *)

Statuses == {"pending", "processing", "completed", "failed"}
Mapped(m) == {id \in JobIds : m[id] # 0}

\* C21: getStats() is a consistent snapshot of the map: each of pending,
\* processing, completed and failed is the number of jobs of the map with
\* that status, and the four add up to totalJobs.
StatsConsistent ==
  LET stats == getStats(jobs, objs)
  IN /\ \A st \in Statuses :
          stats[st] = Cardinality({id \in JobIds : InMap(id) /\ Job(id).status = st})
     /\ stats.pending + stats.processing + stats.completed + stats.failed
          = stats.totalJobs

\* witness of C21: the map holds a completed and a failed job while an
\* object that was replaced in the map is still held by a task
StatsOfMixedMap ==
  /\ getStats(jobs, objs).completed >= 1
  /\ getStats(jobs, objs).failed >= 1
  /\ \E i \in 1..Len(running) : \A id \in JobIds : jobs[id] # running[i].obj

\* a step of clear() on a map that holds a job
ClearStep == Mapped(jobs) # {} /\ Mapped(jobs') = {}

ClearDropsOnlyJobs ==
  [][ClearStep =>
       /\ \A id \in JobIds : jobs'[id] = 0
       /\ getStats(jobs', objs') =
            [pending |-> 0, processing |-> 0, completed |-> 0, failed |-> 0,
             totalJobs |-> 0]
       /\ executions' = executions
       /\ dbJobs' = dbJobs
       /\ queued' = queued /\ running' = running /\ timers' = timers]_vars

\* witness of C23: after clear() the map is empty while the job table still
\* has a row and a task of a dropped job still runs
ClearedWithRowsLeft ==
  /\ nextId > 0
  /\ Mapped(jobs) = {}
  /\ \E id \in JobIds : dbJobs[id] # NoRow
  /\ running # <<>>

\* tasks whose Generator call is outstanding
Generating(r) == {i \in 1..Len(r) : r[i].pc = "gen"}

\* C24: while as many Generator calls are outstanding as the configured
\* concurrency and none of them returns, no job leaves status pending and
\* every job created meanwhile is pending.
HangingGeneratorHoldsSlot ==
  [][(/\ Cardinality(Generating(running)) = config.concurrency
      /\ Len(running') >= Len(running)
      /\ \A i \in 1..Len(running) : running'[i] = running[i])
     => /\ Len(objs') >= Len(objs)
        /\ \A o \in 1..Len(objs) :
             objs[o].status = "pending" =>
               objs'[o].status \in {"pending", "collected"}
        /\ \A o \in (Len(objs) + 1)..Len(objs') :
             objs'[o].status = "pending"]_vars

\* witness of C24: both slots are held by Generator calls and a job
\* enqueued after them waits, pending
AllSlotsGenerating ==
  /\ config.concurrency = 2
  /\ Cardinality(Generating(running)) = 2
  /\ queued # <<>>
  /\ \E id \in JobIds : InMap(id) /\ Job(id).status = "pending" /\ TasksOf(id) = 1

-----------------------------------------------------------------------------
(* The tracker *)

Steps == xray.execution.steps
Appended == xray' # xray /\ xray'.last.effect = "appended"

\* C25: every endStep or errorStep call on an open step puts that step after
\* all steps already in Execution.steps and leaves those as they were, so the
\* steps are listed in the order of their completion, whatever the order of
\* the startStep calls.
CompletionOrder ==
  [][Appended =>
       LET steps == xray'.execution.steps
       IN /\ steps = Append(Steps, Last(steps))
          /\ Last(steps).name = xray'.last.name
          /\ Last(steps).startedAt = xray.activeSteps[xray'.last.name][1].startedAt
          /\ Last(steps).endedAt = <<now>>]_vars

\* witness of C25: two steps of distinct names, the one completed first
\* started last
CompletedInOtherOrder ==
  /\ Len(Steps) = 2
  /\ Steps[1].name # Steps[2].name
  /\ Steps[1].endedAt # <<>> /\ Steps[2].endedAt # <<>>
  /\ Steps[1].startedAt[1] > Steps[2].startedAt[1]
  /\ Steps[1].endedAt[1] <= Steps[2].endedAt[1]

NotOpenIsNoOp ==
  [][(xray' # xray /\ xray'.last.op \in {"endStep", "errorStep"}) =>
       IF xray'.last.name \in Open(xray)
       THEN /\ Len(xray'.execution.steps) = Len(Steps) + 1
            /\ Open(xray') = Open(xray) \ {xray'.last.name}
       ELSE /\ xray'.execution = xray.execution
            /\ xray'.activeSteps = xray.activeSteps
            /\ xray'.pendingReasoningSteps = xray.pendingReasoningSteps]_vars

\* witness of C27: endStep or errorStep was just called for a step that
\* had been finalized before, and the step is still listed once
FinalizedTwice ==
  /\ xray.last.effect = "ignored"
  /\ Cardinality({k \in 1..Len(Steps) : Steps[k].name = xray.last.name}) = 1
  /\ Len(xray.pendingReasoningSteps) = 1

\* C28: startStep for a name that is open replaces the open step without
\* touching Execution.steps, and the following endStep appends one step, which
\* carries the input of the last startStep.
SecondStartReplaces ==
  [][/\ (xray' # xray /\ xray'.last.op = "startStep") =>
          /\ xray'.activeSteps =
               [xray.activeSteps EXCEPT ![xray'.last.name] =
                  <<OpenStep(xray'.last.name, xray'.last.arg, now)>>]
          /\ xray'.execution = xray.execution
          /\ xray'.pendingReasoningSteps = xray.pendingReasoningSteps
     /\ Appended =>
          /\ Len(xray'.execution.steps) = Len(Steps) + 1
          /\ Last(xray'.execution.steps).input =
               xray.activeSteps[xray'.last.name][1].input]_vars

\* witness of C28: a step opened with one input was replaced by a second
\* startStep with another input and then ended; the one step listed has the
\* second input
ReplacedThenEnded ==
  /\ xray.last.op = "endStep" /\ xray.last.effect = "appended"
  /\ Len(Steps) = 1
  /\ xray.overwritten # <<>>
  /\ xray.overwritten[1].name = Steps[1].name
  /\ xray.overwritten[1].input = <<"query">>
  /\ Steps[1].input = <<"laptops">>

\* C29: while enqueueReasoning runs and once it has returned, the jobs it
\* created so far are, in order, one for each step finalized by endStep or
\* errorStep, each for the tracker's executionId and that step's name.
EnqueueReasoningJobs ==
  (xray.pc \in {"enqueueing", "enqueued"} /\ caller.pc = "idle") =>
    LET made == Len(xray.pendingReasoningSteps) - Len(xray.todo)
    IN /\ Len(xray.pendingReasoningSteps) = Len(Steps)
       /\ nextId = made
       /\ getStats(jobs, objs).totalJobs = made
       /\ \A k \in 1..made :
            /\ InMap(k)
            /\ Job(k).executionId = xray.execution.executionId
            /\ Job(k).stepName = Steps[k].name

\* witness of C29: enqueueReasoning returned after creating a job for a
\* step closed by errorStep and a job for a step closed by endStep
EnqueuedBothSteps ==
  /\ xray.pc = "enqueued" /\ caller.pc = "idle"
  /\ nextId = 2
  /\ Steps[1].error # <<>>
  /\ Steps[2].output # <<>>

EndOnlyCloses ==
  [][(xray' # xray /\ xray'.last.op = "end") =>
       /\ xray'.execution =
            [xray.execution EXCEPT !.endedAt = <<now>>,
                                   !.finalOutcome = <<xray'.last.arg>>]
       /\ xray'.activeSteps = xray.activeSteps
       /\ xray'.pendingReasoningSteps = xray.pendingReasoningSteps
       /\ executions' = executions
       /\ objs' = objs /\ jobs' = jobs /\ queued' = queued /\ nextId' = nextId]_vars

\* witness of C31: end() was called on a tracker with Storage, with a
\* finalized step, an open step and nothing saved yet
EndedUnsaved ==
  /\ xray.last.op = "end"
  /\ xray.storage
  /\ xray.execution.finalOutcome # <<>>
  /\ Len(Steps) = 1 /\ Len(xray.pendingReasoningSteps) = 1
  /\ Open(xray) # {}
  /\ ~getExecutionById(executions, xray.execution.executionId).present
  /\ objs = <<>>

-----------------------------------------------------------------------------
(* Storage *)

\* C32: updateStepReasoning throws and leaves Storage as it was when the
\* execution or a step of that name is missing; otherwise it sets the
\* reasoning of one step of that name and changes nothing else.
UpdateStepReasoningEffect ==
  [][(xray'.last.op = "updateStepReasoning"
      /\ (xray' # xray \/ executions' # executions)) =>
       LET e == xray'.last.arg[1]
           n == xray'.last.name
           r == xray'.last.arg[2]
           found == /\ executions[e].present
                    /\ \E k \in 1..Len(executions[e].steps) :
                         executions[e].steps[k].name = n
       IN IF found
          THEN /\ xray'.last.effect = "updated"
               /\ \E k \in 1..Len(executions[e].steps) :
                    /\ executions[e].steps[k].name = n
                    /\ executions' =
                         [executions EXCEPT ![e].steps[k].reasoning = <<r>>]
          ELSE /\ xray'.last.effect = "threw"
               /\ executions' = executions]_vars

\* witness of C32: the call updated one of two steps of the same name,
\* in a Storage that lacks the other execution
UpdatedOneOfTwo ==
  /\ xray.last.effect = "updated"
  /\ LET steps == executions[xray.last.arg[1]].steps
     IN /\ Len(steps) = 2
        /\ steps[1].name = xray.last.name /\ steps[2].name = xray.last.name
        /\ steps[1].reasoning = <<xray.last.arg[2]>>
        /\ steps[2].reasoning = NoReasoning
  /\ \E e \in ExecIds : ~executions[e].present

-----------------------------------------------------------------------------
(* The tracker, continued *)

\* C33: Execution.steps of the tracker is append-only: every step of the
\* tracker's client keeps each element of Execution.steps, with all its
\* fields, at its position.
StepsAppendOnly ==
  [][/\ Len(xray'.execution.steps) >= Len(Steps)
     /\ \A k \in 1..Len(Steps) : xray'.execution.steps[k] = Steps[k]]_vars

\* witness of C33: a name was finalized, started again with another input
\* and finalized again; both steps are listed
SameNameTwice ==
  /\ Len(Steps) = 2
  /\ Steps[1].name = Steps[2].name
  /\ Steps[1].input # Steps[2].input
  /\ Steps[1].endedAt # <<>> /\ Steps[2].endedAt # <<>>
  /\ Steps[2].startedAt[1] > Steps[1].endedAt[1]

-----------------------------------------------------------------------------
(* The queue, continued *)

\* C34: when every Generator call and Storage call returns and timers fire,
\* every job in the map, enqueued or recovered, comes to status completed or
\* failed.
EveryJobSettles ==
  \A id \in JobIds : InMap(id) ~> (InMap(id) /\ Terminal(id))

\* witness of C34: a recovered job and an enqueued job that was retried have
\* both reached a final status
RecoveredAndRetriedSettled ==
  /\ InMap(RecoveredId) /\ Terminal(RecoveredId)
  /\ \E id \in JobIds \ {RecoveredId} :
       /\ InMap(id) /\ Terminal(id)
       /\ Job(id).attempt = 2
  /\ queued = <<>> /\ running = <<>> /\ timers = <<>>

\* C35: a job created by enqueue has 1 <= attempt <= maxRetries and at most
\* maxRetries Generator calls; its attempt never decreases and grows, by one,
\* exactly in the steps that schedule a retry of it.
AttemptBounds ==
  /\ [](\A id \in JobIds \ {RecoveredId} :
          InMap(id) =>
            /\ 1 <= Job(id).attempt
            /\ Job(id).attempt <= config.maxRetries
            /\ log[id].gens <= config.maxRetries)
  /\ [][\A id \in JobIds \ {RecoveredId} :
          (jobs[id] # 0 /\ jobs'[id] # 0) =>
            LET before == objs[jobs[id]].attempt
                after == objs'[jobs'[id]].attempt
                scheduled == Cardinality({k \in 1..Len(timers') : timers'[k].job = id})
                               > TimersOf(id)
            IN IF scheduled THEN after = before + 1 ELSE after = before]_vars

\* C36: in the step in which a job becomes completed, Storage holds a
\* non-empty reasoning for the step of its execution that has its stepName.
CompletedHasReasoning ==
  [][\A o \in 1..Len(objs) :
       (objs[o].status # "completed" /\ objs'[o].status = "completed") =>
         LET stored == getExecutionById(executions', objs'[o].executionId)
             k == FindStep(stored.steps, objs'[o].stepName)
         IN /\ stored.present
            /\ k # 0
            /\ Truthy(stored.steps[k].reasoning)]_vars

\* C37: a reasoning that Storage holds for a step stays there, unchanged,
\* in every step of the tracker and of the queue.
ReasoningKept ==
  [][\A e \in ExecIds : \A k \in 1..Len(executions[e].steps) :
       executions[e].steps[k].reasoning # NoReasoning =>
         /\ k <= Len(executions'[e].steps)
         /\ executions'[e].steps[k].reasoning = executions[e].steps[k].reasoning]_vars

\* C38: of two jobs for the same execution and step name, run with a
\* concurrency of at least 2, at most one has had a Generator call, and
\* updateStepReasoning was called at most once for the step.
NoDoubleGeneration ==
  config.concurrency >= 2 =>
    \A a \in JobIds, b \in JobIds :
      (/\ a # b /\ InMap(a) /\ InMap(b)
       /\ Job(a).executionId = Job(b).executionId
       /\ Job(a).stepName = Job(b).stepName) =>
        /\ log[a].gens = 0 \/ log[b].gens = 0
        /\ log[a].upds + log[b].upds <= 1

\* C39: when processExecution has returned after enqueueExecution created a
\* job for every step of the stored execution, names repeated or not, and the
\* Generator always succeeds, all those jobs are completed and every step
\* has reasoning in Storage.
RepeatedNamesReasoned ==
  LET stored == getExecutionById(executions, caller.executionId)
  IN (caller.pc = "returned" /\ Cardinality(caller.batch) = Len(stored.steps)) =>
       /\ \A id \in caller.batch : InMap(id) /\ Job(id).status = "completed"
       /\ \A k \in 1..Len(stored.steps) : stored.steps[k].reasoning # NoReasoning

\* C40: a job created by enqueue keeps its entry in the map and has at any
\* time at most one task or retry timer, whenever loadPendingJobs returns.
SubmittedOncePerAttempt ==
  /\ [](\A id \in JobIds \ {RecoveredId} :
          InMap(id) => TasksOf(id) + TimersOf(id) <= 1)
  /\ [][\A id \in JobIds \ {RecoveredId} :
          jobs[id] # 0 => jobs'[id] = jobs[id]]_vars

====
